---- MODULE Spec2Model ----
(***************************************************************************)
(* Model of library/src/android.rs: locating a native library inside the   *)
(* split APKs of an Android application.                                   *)
(*                                                                         *)
(* Strings (file names, paths, zip entry names) are sequences of one-      *)
(* character strings, so that ends_with, contains, PathBuf::join and        *)
(* Path::ancestors are computed on the text and not assumed.  The special  *)
(* element BadByte stands for a byte that is not valid UTF-8: OsStr::to_str *)
(* fails on a name that holds one.                                          *)
(***************************************************************************)
EXTENDS Integers, Sequences, FiniteSets, TLC

VARIABLES
    arch,       \* index of the cfg(target_arch) the crate was built for
    lib_name,   \* the lib_name argument
    hints,      \* the original_libapp_paths argument
    fs,         \* the files of apks_dir: file name -> file
    enum,       \* what fs::read_dir yielded during the last call
    pc,         \* "start", or the name of the function that has returned
    rel,        \* value returned by get_relative_lib_path
    data_dir,   \* value returned by libapp_path_from_settings
    loc,        \* value returned by find_and_open_lib
    opened,     \* paths handed to check_for_lib_path during the call, in order
    cur         \* value returned by open_base_lib

vars == <<arch, lib_name, hints, fs, enum, pc, rel, data_dir, loc, opened, cur>>

----------------------------------------------------------------------------
(* Text helpers: str::ends_with, str::contains, OsStr::to_str.             *)

Sep == "/"
BadByte == "<ff>"

ends_with(s, suffix) ==
    /\ Len(s) >= Len(suffix)
    /\ SubSeq(s, Len(s) - Len(suffix) + 1, Len(s)) = suffix

contains(s, pat) ==
    \E i \in 1..(Len(s) - Len(pat) + 1) : SubSeq(s, i, i + Len(pat) - 1) = pat

\* OsStr::to_str: None when the name is not valid UTF-8.
to_str(os) ==
    IF \E i \in 1..Len(os) : os[i] = BadByte
    THEN [some |-> FALSE, v |-> <<>>]
    ELSE [some |-> TRUE, v |-> os]

----------------------------------------------------------------------------
(* ArchNames and android_arch_names: one entry per cfg(target_arch).       *)

S_x86 == <<"x", "8", "6">>
S_x86_64 == <<"x", "8", "6", "_", "6", "4">>
S_arm64_v8a == <<"a", "r", "m", "6", "4", "_", "v", "8", "a">>
S_arm64_v8a_dir == <<"a", "r", "m", "6", "4", "-", "v", "8", "a">>
S_armeabi_v7a == <<"a", "r", "m", "e", "a", "b", "i", "_", "v", "7", "a">>
S_armeabi_v7a_dir == <<"a", "r", "m", "e", "a", "b", "i", "-", "v", "7", "a">>

ArchNames ==
    << [target |-> "x86",     apk_split |-> S_x86,         lib_dir |-> S_x86],
       [target |-> "x86_64",  apk_split |-> S_x86_64,      lib_dir |-> S_x86_64],
       [target |-> "aarch64", apk_split |-> S_arm64_v8a,   lib_dir |-> S_arm64_v8a_dir],
       [target |-> "arm",     apk_split |-> S_armeabi_v7a, lib_dir |-> S_armeabi_v7a_dir] >>

Archs == DOMAIN ArchNames

android_arch_names(a) == ArchNames[a]

----------------------------------------------------------------------------
(* PathBuf::join on Unix: an absolute argument replaces the path, otherwise *)
(* a separator is added unless the path is empty or already ends with one.  *)

is_absolute(p) == Len(p) > 0 /\ p[1] = Sep

path_join(base, p) ==
    IF is_absolute(p) THEN p
    ELSE IF Len(base) > 0 /\ base[Len(base)] # Sep THEN base \o <<Sep>> \o p
    ELSE base \o p

S_lib == <<"l", "i", "b">>

get_relative_lib_path(a, name) ==
    path_join(path_join(S_lib, android_arch_names(a).lib_dir), name)

----------------------------------------------------------------------------
(* Path::parent and Path::ancestors on Unix, for paths without "."         *)
(* components: trailing separators are not a component, the root "/" and   *)
(* the empty path have no parent.                                          *)

root_len(p) == IF is_absolute(p) THEN 1 ELSE 0

RECURSIVE trim_right(_)
trim_right(p) ==
    IF Len(p) > root_len(p) /\ p[Len(p)] = Sep
    THEN trim_right(SubSeq(p, 1, Len(p) - 1))
    ELSE p

RECURSIVE drop_component(_)
drop_component(p) ==
    IF Len(p) > root_len(p) /\ p[Len(p)] # Sep
    THEN drop_component(SubSeq(p, 1, Len(p) - 1))
    ELSE p

None == [some |-> FALSE, v |-> <<>>]
Some(x) == [some |-> TRUE, v |-> x]

parent(p) ==
    LET t == trim_right(p)
    IN  IF Len(t) = root_len(t) THEN None
        ELSE Some(trim_right(drop_component(t)))

\* path.ancestors().nth(n): the path itself is ancestor number 0.
RECURSIVE ancestors_nth(_, _)
ancestors_nth(p, n) ==
    IF n = 0 THEN Some(p)
    ELSE LET up == parent(p)
         IN  IF up.some THEN ancestors_nth(up.v, n - 1) ELSE None

\* One ancestor short.
AncestorIndexTwo == 3 - 1

AncestorIndex == 3

InvalidArgument(detail) == [ok |-> FALSE, err |-> "InvalidArgument", detail |-> detail, v |-> <<>>]
OkPath(p) == [ok |-> TRUE, err |-> "", detail |-> "", v |-> p]

app_data_dir_from_libapp_path(libapp_path) ==
    LET root == ancestors_nth(libapp_path, AncestorIndex)
    IN  IF root.some THEN OkPath(root.v) ELSE InvalidArgument("Invalid path")

libapp_path_from_settings(original_libapp_paths) ==
    IF original_libapp_paths = <<>>
    THEN InvalidArgument("empty")
    ELSE app_data_dir_from_libapp_path(original_libapp_paths[Len(original_libapp_paths)])

----------------------------------------------------------------------------
(* The files of apks_dir.  A file is a directory or a regular file; a      *)
(* regular file may be unreadable, may not be a zip archive, or is a zip   *)
(* archive with named entries.  An entry may fail to open (by_name) or to  *)
(* read (read_to_end), otherwise it has bytes.                             *)

NoEntries == [e \in {} |-> [opens |-> TRUE, reads |-> TRUE, data |-> <<>>]]

File(kind, readable, zip, entries) ==
    [kind |-> kind, readable |-> readable, zip |-> zip, entries |-> entries]

Entry(opens, reads, data) == [opens |-> opens, reads |-> reads, data |-> data]

Directory == File("dir", TRUE, FALSE, NoEntries)
Unreadable == File("file", FALSE, FALSE, NoEntries)
NotZip == File("file", TRUE, FALSE, NoEntries)
ZipOf(entries) == File("file", TRUE, TRUE, entries)

\* ZipLocation, and the anyhow::Result around it.
NoArchive == [path |-> <<>>, entries |-> NoEntries]

ZipLocation(path, file, internal_path) ==
    [ok |-> TRUE, err |-> "",
     archive |-> [path |-> path, entries |-> file.entries],
     internal_path |-> internal_path]

Failure(err) ==
    [ok |-> FALSE, err |-> err, archive |-> NoArchive, internal_path |-> <<>>]

\* check_for_lib_path without the scan of file_names().
check_for_lib_path_unchecked(files, zip_path, lib_path) ==
    IF zip_path \notin DOMAIN files THEN Failure("Io.NotFound")
    ELSE LET f == files[zip_path]
         IN  IF ~f.readable THEN Failure("Io.PermissionDenied")
             ELSE IF f.kind = "dir" \/ ~f.zip THEN Failure("ZipError")
             ELSE ZipLocation(zip_path, f, lib_path)

\* fs::File::open(zip_path)?, zip::ZipArchive::new(..)?, then the scan of
\* file_names().  Opening a directory succeeds; reading it as a zip fails.
check_for_lib_path(files, zip_path, lib_path) ==
    IF zip_path \notin DOMAIN files THEN Failure("Io.NotFound")
    ELSE LET f == files[zip_path]
         IN  IF ~f.readable THEN Failure("Io.PermissionDenied")
             ELSE IF f.kind = "dir" \/ ~f.zip THEN Failure("ZipError")
             ELSE IF \E name \in DOMAIN f.entries : name = lib_path
                  THEN ZipLocation(zip_path, f, lib_path)
             ELSE Failure("Library not found in APK")

S_apk == <<".", "a", "p", "k">>
S_base_apk == <<"b", "a", "s", "e", ".", "a", "p", "k">>

\* is_dir that never sees a directory.
is_dir_never(files, name) == FALSE

\* path.is_dir()
is_dir(files, name) == name \in DOMAIN files /\ files[name].kind = "dir"

\* The filter without the test of the architecture.
is_arch_split_any_apk(a, filename) == ends_with(filename, S_apk)

\* filename.ends_with(".apk") && filename.contains(arch.apk_split)
is_arch_split(a, filename) ==
    ends_with(filename, S_apk) /\ contains(filename, android_arch_names(a).apk_split)

\* What fs::read_dir and its iterator yielded: rd is "ok" or the error of
\* read_dir itself; names are the entries yielded, in order; err tells that
\* the iterator then yielded an Err instead of a further entry.
Enumeration(rd, names, err) == [rd |-> rd, names |-> names, err |-> err]

\* The for loop from entry number i on, then the base.apk fallback.
RECURSIVE scan_from(_, _, _, _, _)
scan_from(files, en, a, lib_path, i) ==
    IF i > Len(en.names)
    THEN IF en.err
         THEN [res |-> Failure("Io.ReadDirEntry"), opened |-> <<>>]
         ELSE [res |-> check_for_lib_path(files, S_base_apk, lib_path),
               opened |-> <<S_base_apk>>]
    ELSE LET path == en.names[i]
             filename == to_str(path)
             rest == scan_from(files, en, a, lib_path, i + 1)
         IN  IF is_dir(files, path) THEN rest
             ELSE IF filename.some /\ is_arch_split(a, filename.v)
                  THEN LET zip == check_for_lib_path(files, path, lib_path)
                       IN  IF zip.ok
                           THEN [res |-> zip, opened |-> <<path>>]
                           ELSE [res |-> rest.res, opened |-> <<path>> \o rest.opened]
             ELSE rest

find_and_open_lib(files, en, a, name) ==
    LET lib_path == to_str(get_relative_lib_path(a, name))
    IN  IF ~lib_path.some
        THEN [res |-> Failure("Invalid lib path"), opened |-> <<>>]
        ELSE IF en.rd # "ok"
        THEN [res |-> Failure(en.rd), opened |-> <<>>]
        ELSE scan_from(files, en, a, lib_path.v, 1)

\* The Cursor over the buffer, and the anyhow::Result around it.
Bytes(data) == [ok |-> TRUE, err |-> "", data |-> data]
NoBytes(err) == [ok |-> FALSE, err |-> err, data |-> <<>>]

\* archive.by_name(internal_path)
by_name(archive, internal_path) ==
    IF internal_path \in DOMAIN archive.entries /\ archive.entries[internal_path].opens
    THEN Some(archive.entries[internal_path])
    ELSE None

\* zip_file.read_to_end(&mut buffer)
read_to_end(zip_file) ==
    IF zip_file.reads THEN Some(zip_file.data) ELSE None

open_base_lib(files, en, a, name) ==
    LET found == find_and_open_lib(files, en, a, name)
        zip_location == found.res
    IN  IF ~zip_location.ok
        THEN [res |-> NoBytes(zip_location.err), opened |-> found.opened]
        ELSE LET zip_file == by_name(zip_location.archive, zip_location.internal_path)
             IN  IF ~zip_file.some
                 THEN [res |-> NoBytes("Failed to find libapp.so in APK"),
                       opened |-> found.opened]
                 ELSE LET buffer == read_to_end(zip_file.v)
                      IN  IF ~buffer.some
                          THEN [res |-> NoBytes("Io.Read"), opened |-> found.opened]
                          ELSE [res |-> Bytes(buffer.v), opened |-> found.opened]

----------------------------------------------------------------------------
(* Inputs.  The file names are built from the names of the architecture,   *)
(* as bundletool and the tests of android.rs build them.                   *)

MaxEntries == 2     \* entries of apks_dir other than base.apk
MaxNameLen == 3     \* characters of a library name (get_relative_lib_path)
MaxPathLen == 8     \* characters of a hint path
MaxHints == 2       \* elements of original_libapp_paths

S_libapp_so == <<"l", "i", "b", "a", "p", "p", ".", "s", "o">>

SplitA(a) == <<"a">> \o android_arch_names(a).apk_split \o S_apk
SplitB(a) == <<"b">> \o android_arch_names(a).apk_split \o S_apk
LibDirNamed(a) == android_arch_names(a).lib_dir \o S_apk
NotApk(a) == android_arch_names(a).apk_split \o S_apk \o <<"s">>
NotText(a) == <<"a">> \o android_arch_names(a).apk_split \o <<BadByte>> \o S_apk
Unrelated == <<"a", "a", "a", ".", "a", "p", "k">>

EntryNames(a) == {SplitA(a), SplitB(a), LibDirNamed(a), NotApk(a), NotText(a), Unrelated}

RightPath(a, name) == get_relative_lib_path(a, name)
WrongPath(a, name) == get_relative_lib_path((a % 4) + 1, name)

EmptyZip == ZipOf(NoEntries)
Lacking(a, name) == ZipOf(WrongPath(a, name) :> Entry(TRUE, TRUE, <<9>>))
GoodA(a, name) == ZipOf(RightPath(a, name) :> Entry(TRUE, TRUE, <<1, 2>>))
GoodB(a, name) ==
    ZipOf((RightPath(a, name) :> Entry(TRUE, TRUE, <<3>>))
          @@ (WrongPath(a, name) :> Entry(TRUE, TRUE, <<9>>)))
BadEntry(a, name) == ZipOf(RightPath(a, name) :> Entry(FALSE, TRUE, <<1>>))
BadData(a, name) == ZipOf(RightPath(a, name) :> Entry(TRUE, FALSE, <<1>>))

FilesNamed(n, a, name) ==
    IF n = S_base_apk
    THEN {Directory, Unreadable, NotZip, EmptyZip, Lacking(a, name), GoodA(a, name)}
    ELSE IF n = SplitA(a)
    THEN {Directory, Unreadable, NotZip, Lacking(a, name), GoodA(a, name),
          BadEntry(a, name), BadData(a, name)}
    ELSE IF n = SplitB(a) THEN {Lacking(a, name), GoodB(a, name)}
    ELSE IF n = LibDirNamed(a) THEN {Lacking(a, name), GoodA(a, name)}
    ELSE IF n = Unrelated THEN {Directory, GoodA(a, name)}
    ELSE {GoodA(a, name)}

NoFiles == [n \in {} |-> Directory]

\* Every directory whose entries are named by D.
RECURSIVE DirsOver(_, _, _)
DirsOver(D, a, name) ==
    IF D = {} THEN {NoFiles}
    ELSE LET n == CHOOSE x \in D : TRUE
         IN  {(n :> f) @@ d : f \in FilesNamed(n, a, name), d \in DirsOver(D \ {n}, a, name)}

Dirs(a, name) ==
    UNION {DirsOver(D \cup B, a, name) :
             D \in {X \in SUBSET EntryNames(a) : Cardinality(X) <= MaxEntries},
             B \in {{}, {S_base_apk}}}

\* Every order of the elements of S.
RECURSIVE Orders(_)
Orders(S) ==
    IF S = {} THEN {<<>>}
    ELSE UNION {{<<x>> \o o : o \in Orders(S \ {x})} : x \in S}

\* Everything read_dir can yield for the directory: every order, cut short
\* by an Err after any number of entries; or read_dir itself fails.
Enumerations(files) ==
    {Enumeration("ok", o, FALSE) : o \in Orders(DOMAIN files)}
    \cup {Enumeration("ok", SubSeq(o, 1, k), TRUE) :
            o \in Orders(DOMAIN files), k \in 0..Cardinality(DOMAIN files)}
    \cup {Enumeration("Io.PermissionDenied", <<>>, FALSE)}
    \cup (IF files = NoFiles THEN {Enumeration("Io.NotFound", <<>>, FALSE)} ELSE {})

NoEnumeration == Enumeration("none", <<>>, FALSE)
NoPath == OkPath(<<>>)
NoBytesYet == NoBytes("none")
NoLocation == Failure("none")

----------------------------------------------------------------------------
(* The calls of find_and_open_lib (Spec) and of open_base_lib (SpecOpen),  *)
(* one call per behaviour, on every directory and every enumeration.  loc  *)
(* is the zip_location of open_base_lib in the latter.                     *)

Init ==
    /\ arch \in Archs
    /\ lib_name = S_libapp_so
    /\ hints = <<>>
    /\ fs \in Dirs(arch, lib_name)
    /\ enum = NoEnumeration
    /\ pc = "start"
    /\ rel = <<>>
    /\ data_dir = NoPath
    /\ loc = NoLocation
    /\ opened = <<>>
    /\ cur = NoBytesYet

FindAndOpenLib ==
    /\ pc = "start"
    /\ \E en \in Enumerations(fs) :
         LET r == find_and_open_lib(fs, en, arch, lib_name)
         IN  /\ enum' = en
             /\ loc' = r.res
             /\ opened' = r.opened
    /\ pc' = "find_and_open_lib"
    /\ UNCHANGED <<arch, lib_name, hints, fs, rel, data_dir, cur>>

OpenBaseLib ==
    /\ pc = "start"
    /\ \E en \in Enumerations(fs) :
         LET r == open_base_lib(fs, en, arch, lib_name)
         IN  /\ enum' = en
             /\ loc' = find_and_open_lib(fs, en, arch, lib_name).res
             /\ cur' = r.res
             /\ opened' = r.opened
    /\ pc' = "open_base_lib"
    /\ UNCHANGED <<arch, lib_name, hints, fs, rel, data_dir>>

Spec == Init /\ [][FindAndOpenLib]_vars

SpecOpen == Init /\ [][OpenBaseLib]_vars

----------------------------------------------------------------------------
(* The calls of get_relative_lib_path, for every architecture and every    *)
(* short library name over a separator and a letter.                       *)

Texts(alphabet, n) == UNION {[1..k -> alphabet] : k \in 0..n}

InitLibPath ==
    /\ arch \in Archs
    /\ lib_name \in Texts({Sep, "l"}, MaxNameLen)
    /\ hints = <<>>
    /\ fs = NoFiles
    /\ enum = NoEnumeration
    /\ pc = "start"
    /\ rel = <<>>
    /\ data_dir = NoPath
    /\ loc = NoLocation
    /\ opened = <<>>
    /\ cur = NoBytesYet

GetRelativeLibPath ==
    /\ pc = "start"
    /\ rel' = get_relative_lib_path(arch, lib_name)
    /\ pc' = "get_relative_lib_path"
    /\ UNCHANGED <<arch, lib_name, hints, fs, enum, data_dir, loc, opened, cur>>

SpecLibPath == InitLibPath /\ [][GetRelativeLibPath]_vars

----------------------------------------------------------------------------
(* The calls of libapp_path_from_settings: the last hint is any short path *)
(* over a separator and a letter, the hints before it are as the engine    *)
(* passes them.                                                            *)

S_a == <<"a">>
S_deep == <<"/", "a", "/", "a", "/", "a", "/", "a">>

RECURSIVE Leading(_)
Leading(n) ==
    IF n <= 0 THEN {<<>>}
    ELSE Leading(n - 1) \cup {<<h>> \o l : h \in {S_a, S_deep}, l \in Leading(n - 1)}

HintLists ==
    {<<>>} \cup {l \o <<p>> : l \in Leading(MaxHints - 1), p \in Texts({Sep, "a"}, MaxPathLen)}

InitHints ==
    /\ arch = 1
    /\ lib_name = S_libapp_so
    /\ hints \in HintLists
    /\ fs = NoFiles
    /\ enum = NoEnumeration
    /\ pc = "start"
    /\ rel = <<>>
    /\ data_dir = NoPath
    /\ loc = NoLocation
    /\ opened = <<>>
    /\ cur = NoBytesYet

LibappPathFromSettings ==
    /\ pc = "start"
    /\ data_dir' = libapp_path_from_settings(hints)
    /\ pc' = "libapp_path_from_settings"
    /\ UNCHANGED <<arch, lib_name, hints, fs, enum, rel, loc, opened, cur>>

SpecHints == InitHints /\ [][LibappPathFromSettings]_vars

----------------------------------------------------------------------------
(* The names the specification fixes, written out independently of the     *)
(* ArchNames table of the code.                                            *)

ArchiveMatchName == <<S_x86, S_x86_64, S_arm64_v8a, S_armeabi_v7a>>
LibraryDirectoryName == <<S_x86, S_x86_64, S_arm64_v8a_dir, S_armeabi_v7a_dir>>

\* "lib/" + library_directory_name + "/" + name
ExpectedPath(a, name) == S_lib \o <<Sep>> \o LibraryDirectoryName[a] \o <<Sep>> \o name

\* The path segments of p: the maximal runs of characters other than Sep.
RECURSIVE Segments(_)
Segments(p) ==
    IF p = <<>> THEN <<>>
    ELSE IF p[1] = Sep THEN Segments(Tail(p))
    ELSE LET n == CHOOSE k \in 1..Len(p) :
                    /\ \A j \in 1..k : p[j] # Sep
                    /\ k = Len(p) \/ p[k + 1] = Sep
         IN  <<SubSeq(p, 1, n)>> \o Segments(SubSeq(p, n + 1, Len(p)))

IsPrefix(s, t) == Len(s) <= Len(t) /\ SubSeq(t, 1, Len(s)) = s

LastHint == hints[Len(hints)]

----------------------------------------------------------------------------
(* C8: for each of the four architectures and every library name, the      *)
(* relative library path is "lib/" + library_directory_name + "/" + name,  *)
(* with the directory names x86, x86_64, arm64-v8a and armeabi-v7a.        *)
C8_RelativeLibraryPath ==
    pc = "get_relative_lib_path" => rel = ExpectedPath(arch, lib_name)

\* The same for the names that do not begin with a path separator.
C8_RelativeNameOnly ==
    pc = "get_relative_lib_path" /\ ~is_absolute(lib_name)
        => rel = ExpectedPath(arch, lib_name)

----------------------------------------------------------------------------
(* C7: libapp_path_from_settings fails with InvalidArgument exactly when   *)
(* the hint list is empty or its last element has fewer than three         *)
(* segments; otherwise it returns the last element without its three       *)
(* trailing segments (a prefix of it, with no separator left at the end    *)
(* except the root), and the hints before the last do not matter.          *)
C7_DataDirectory ==
    pc = "libapp_path_from_settings" =>
        /\ ~data_dir.ok <=> (hints = <<>> \/ Len(Segments(LastHint)) < 3)
        /\ ~data_dir.ok => data_dir.err = "InvalidArgument"
        /\ data_dir.ok =>
             LET segs == Segments(LastHint)
             IN  /\ IsPrefix(data_dir.v, LastHint)
                 /\ Segments(data_dir.v) = SubSeq(segs, 1, Len(segs) - 3)
                 /\ is_absolute(data_dir.v) = is_absolute(LastHint)
                 /\ Len(data_dir.v) > root_len(data_dir.v)
                        => data_dir.v[Len(data_dir.v)] # Sep
        /\ hints # <<>> =>
             \A l \in Leading(MaxHints - 1) :
                 libapp_path_from_settings(l \o <<LastHint>>) = data_dir

\* Two hints, the last one four segments deep: one segment is left.
C7_Witness ==
    /\ pc = "libapp_path_from_settings"
    /\ Len(hints) = 2
    /\ data_dir.ok
    /\ Len(Segments(LastHint)) = 4
    /\ Len(Segments(data_dir.v)) = 1

----------------------------------------------------------------------------
(* The directory as the specification describes it.                        *)

Returned == pc \in {"find_and_open_lib", "open_base_lib"}

IsText(n) == \A i \in 1..Len(n) : n[i] # BadByte

\* An architecture-matching candidate: a regular file with a text name that
\* ends in ".apk" and contains archive_match_name.
Matching(n) ==
    /\ n \in DOMAIN fs
    /\ fs[n].kind = "file"
    /\ IsText(n)
    /\ ends_with(n, S_apk)
    /\ contains(n, ArchiveMatchName[arch])

\* The file named n opens as an archive that holds expected_path.
Holds(n) ==
    /\ n \in DOMAIN fs
    /\ fs[n].kind = "file" /\ fs[n].readable /\ fs[n].zip
    /\ ExpectedPath(arch, lib_name) \in DOMAIN fs[n].entries

Match(n) == Matching(n) /\ Holds(n)

PositionIn(seq, x) == CHOOSE i \in 1..Len(seq) : seq[i] = x
Occurs(seq, x) == \E i \in 1..Len(seq) : seq[i] = x
Occurrences(seq, x) == Cardinality({i \in 1..Len(seq) : seq[i] = x})

----------------------------------------------------------------------------
(* C1: when some architecture-matching candidate opens and holds           *)
(* expected_path, find_and_open_lib succeeds with the first such candidate *)
(* of the enumeration; nothing is opened after it, base.apk never.         *)
C1_FirstMatchReturned ==
    Returned /\ (\E n \in DOMAIN fs : Match(n)) =>
        /\ loc.ok
        /\ \E i \in 1..Len(enum.names) :
             /\ Match(enum.names[i])
             /\ \A j \in 1..(i - 1) : ~Match(enum.names[j])
             /\ loc.archive.path = enum.names[i]
             /\ opened # <<>> /\ opened[Len(opened)] = enum.names[i]
        /\ ~Occurs(opened, S_base_apk)

\* The same, for the calls in which read_dir and its iterator did not fail.
C1_WhenListed ==
    Returned /\ enum.rd = "ok" /\ ~enum.err /\ (\E n \in DOMAIN fs : Match(n)) =>
        /\ loc.ok
        /\ \E i \in 1..Len(enum.names) :
             /\ Match(enum.names[i])
             /\ \A j \in 1..(i - 1) : ~Match(enum.names[j])
             /\ loc.archive.path = enum.names[i]
             /\ opened # <<>> /\ opened[Len(opened)] = enum.names[i]
        /\ ~Occurs(opened, S_base_apk)

----------------------------------------------------------------------------
(* C2: when no architecture-matching candidate opens and holds             *)
(* expected_path, the result is the result of probing base.apk: "does not  *)
(* exist" when it is missing, an archive error when it is not a valid      *)
(* archive, not found when it is an archive without expected_path, and     *)
(* success with expected_path otherwise.                                   *)
BaseProbe ==
    IF S_base_apk \notin DOMAIN fs THEN Failure("Io.NotFound")
    ELSE IF ~fs[S_base_apk].readable THEN Failure("Io.PermissionDenied")
    ELSE IF fs[S_base_apk].kind = "dir" \/ ~fs[S_base_apk].zip THEN Failure("ZipError")
    ELSE IF ~Holds(S_base_apk) THEN Failure("Library not found in APK")
    ELSE [ok |-> TRUE, err |-> "",
          archive |-> [path |-> S_base_apk, entries |-> fs[S_base_apk].entries],
          internal_path |-> ExpectedPath(arch, lib_name)]

C2_BaseFallback ==
    Returned /\ ~(\E n \in DOMAIN fs : Match(n)) => loc = BaseProbe

\* The same, for the calls in which read_dir and its iterator did not fail.
C2_WhenListed ==
    Returned /\ enum.rd = "ok" /\ ~enum.err /\ ~(\E n \in DOMAIN fs : Match(n))
        => loc = BaseProbe

----------------------------------------------------------------------------
(* C3: with the same files and the same library name, the outcome (the     *)
(* internal path of a success, the kind of a failure) is the same in       *)
(* whichever order the directory entries are enumerated.                   *)
Outcome(r) == IF r.ok THEN <<"ok", r.internal_path>> ELSE <<"err", r.err>>

\* The enumerations that differ from en in the order of the entries only.
Reordered(en) ==
    {Enumeration(en.rd, SubSeq(o, 1, Len(en.names)), en.err) : o \in Orders(DOMAIN fs)}

C3_OrderIndependent ==
    Returned =>
        \A other \in Reordered(enum) :
            Outcome(find_and_open_lib(fs, other, arch, lib_name).res) = Outcome(loc)

\* The same, for the calls in which read_dir and its iterator did not fail.
C3_WhenListed ==
    Returned /\ enum.rd = "ok" /\ ~enum.err =>
        \A other \in Reordered(enum) :
            Outcome(find_and_open_lib(fs, other, arch, lib_name).res) = Outcome(loc)

----------------------------------------------------------------------------
(* C4: entries that are skipped do not change the result.  Taking any set  *)
(* of subdirectories, entries with a name that is not text, files that do  *)
(* not match the architecture filter and matching files that do not open   *)
(* as an archive holding expected_path (base.apk excepted) out of the      *)
(* directory and out of the enumeration leaves the result unchanged.       *)
(* Every directory with such an entry added is itself a directory of the   *)
(* model, so this covers adding as well as removing.                       *)
Skippable(n) ==
    /\ n \in DOMAIN fs
    /\ n # S_base_apk
    /\ \/ fs[n].kind = "dir"
       \/ ~IsText(n)
       \/ ~(ends_with(n, S_apk) /\ contains(n, ArchiveMatchName[arch]))
       \/ ~Holds(n)

Without(files, S) == [n \in DOMAIN files \ S |-> files[n]]

RECURSIVE Filtered(_, _)
Filtered(seq, S) ==
    IF seq = <<>> THEN <<>>
    ELSE IF seq[1] \in S THEN Filtered(Tail(seq), S)
    ELSE <<seq[1]>> \o Filtered(Tail(seq), S)

C4_SkippedEntriesIgnored ==
    Returned =>
        \A S \in SUBSET {n \in DOMAIN fs : Skippable(n)} :
            find_and_open_lib(Without(fs, S),
                              Enumeration(enum.rd, Filtered(enum.names, S), enum.err),
                              arch, lib_name).res = loc

\* A subdirectory and a matching file that is no archive were enumerated
\* before the archive that was returned.
C4_Witness ==
    /\ Returned
    /\ loc.ok
    /\ \E i, j \in 1..Len(enum.names) :
         /\ fs[enum.names[i]].kind = "dir"
         /\ Matching(enum.names[j]) /\ ~fs[enum.names[j]].zip
         /\ Occurs(enum.names, loc.archive.path)
         /\ i < PositionIn(enum.names, loc.archive.path)
         /\ j < PositionIn(enum.names, loc.archive.path)

----------------------------------------------------------------------------
(* C5: every error find_and_open_lib returns is the error of the base.apk  *)
(* attempt: base.apk was the last file tried and the error is its own.     *)
C5_OnlyBaseErrors ==
    Returned /\ ~loc.ok =>
        /\ opened # <<>>
        /\ opened[Len(opened)] = S_base_apk
        /\ loc = BaseProbe

----------------------------------------------------------------------------
(* C9: a returned ZipLocation holds an archive that was opened during the  *)
(* call, and its internal_path is expected_path and is one of the entry    *)
(* names of that archive.                                                  *)
C9_LocationVerified ==
    Returned /\ loc.ok =>
        /\ opened # <<>> /\ opened[Len(opened)] = loc.archive.path
        /\ loc.archive.path \in DOMAIN fs
        /\ fs[loc.archive.path].readable /\ fs[loc.archive.path].zip
        /\ loc.archive.entries = fs[loc.archive.path].entries
        /\ loc.internal_path = ExpectedPath(arch, lib_name)
        /\ loc.internal_path \in DOMAIN loc.archive.entries

\* A split was returned although an archive without the entry came first.
C9_Witness ==
    /\ Returned
    /\ loc.ok
    /\ loc.archive.path # S_base_apk
    /\ Len(opened) = 2
    /\ fs[opened[1]].zip /\ ~Holds(opened[1])

----------------------------------------------------------------------------
(* C10: a call opens each architecture-matching candidate at most once and *)
(* base.apk at most once; base.apk only as the last file, after every      *)
(* candidate of the directory was probed and failed; and nothing that is   *)
(* neither a candidate nor base.apk (so no such file is returned).         *)
C10_BoundedProbes ==
    Returned =>
        /\ \A i \in 1..Len(opened) :
             /\ Occurrences(opened, opened[i]) = 1
             /\ Matching(opened[i]) \/ opened[i] = S_base_apk
             /\ opened[i] = S_base_apk =>
                  /\ i = Len(opened)
                  /\ \A n \in DOMAIN fs :
                       Matching(n) => Occurs(opened, n) /\ ~Holds(n)
        /\ Len(opened) <= Cardinality({n \in DOMAIN fs : Matching(n)}) + 1
        /\ loc.ok => Matching(loc.archive.path) \/ loc.archive.path = S_base_apk

\* base.apk was opened after the two candidates of the directory failed.
C10_Witness ==
    /\ Returned
    /\ Len(opened) = 3
    /\ opened[3] = S_base_apk
    /\ Matching(opened[1]) /\ Matching(opened[2])

----------------------------------------------------------------------------
(* C6: open_base_lib fails with the error of find_and_open_lib when that   *)
(* fails, with "does not exist" when the directory has no matching split   *)
(* and no base.apk; when find_and_open_lib succeeds it returns the bytes   *)
(* of the entry internal_path of the returned archive, and fails without   *)
(* opening any further file when that entry cannot be opened or read.      *)
C6_OpenLibraryBytes ==
    pc = "open_base_lib" =>
        /\ ~loc.ok => ~cur.ok /\ cur.err = loc.err
        /\ (~(\E n \in DOMAIN fs : Matching(n)) /\ S_base_apk \notin DOMAIN fs)
              => ~cur.ok /\ cur.err = "Io.NotFound"
        /\ loc.ok =>
             LET entry == fs[loc.archive.path].entries[loc.internal_path]
             IN  /\ opened[Len(opened)] = loc.archive.path
                 /\ IF entry.opens /\ entry.reads
                    THEN cur.ok /\ cur.data = entry.data
                    ELSE ~cur.ok

\* The same, for the calls in which read_dir and its iterator did not fail.
C6_WhenListed ==
    pc = "open_base_lib" /\ enum.rd = "ok" /\ ~enum.err =>
        /\ ~loc.ok => ~cur.ok /\ cur.err = loc.err
        /\ (~(\E n \in DOMAIN fs : Matching(n)) /\ S_base_apk \notin DOMAIN fs)
              => ~cur.ok /\ cur.err = "Io.NotFound"
        /\ loc.ok =>
             LET entry == fs[loc.archive.path].entries[loc.internal_path]
             IN  /\ opened[Len(opened)] = loc.archive.path
                 /\ IF entry.opens /\ entry.reads
                    THEN cur.ok /\ cur.data = entry.data
                    ELSE ~cur.ok

====
